---------------------------- MODULE Spec2Model ----------------------------
(***************************************************************************)
(* A model of name_gen.py: the orthography tables, syllable generation,    *)
(* the morpheme / word pools and the name generator of BasicLanguage.      *)
(*                                                                         *)
(* A Python string is modelled as a sequence of one-character strings      *)
(* ('sh' is <<"s", "h">>), so that len(), concatenation, substring search  *)
(* and the per-character loop of transliterate are what they are in the    *)
(* code.  A dict is a function from its keys; a defaultdict(list) is a     *)
(* function over the pool identifiers that starts with empty lists.        *)
(***************************************************************************)
EXTENDS Naturals, Sequences, FiniteSets, TLC

VARIABLES
    Orthography_ortho, \* the class attribute Orthography.ortho (one dict, shared)
    orthos,            \* the Orthography instances constructed so far
    phonemes,          \* BasicLanguage.phonemes
    syll,              \* BasicLanguage.syll  (the syllable pattern)
    ortho,             \* BasicLanguage.ortho (an index into orthos, or NoOrtho)
    min_syll,          \* BasicLanguage.min_syll
    max_syll,          \* BasicLanguage.max_syll
    restricts,         \* BasicLanguage.restricts
    min_char,          \* BasicLanguage.min_char
    max_char,          \* BasicLanguage.max_char
    morphemes,         \* BasicLanguage.morphemes : pool -> list of str
    words,             \* BasicLanguage.words     : pool -> list of str
    names,             \* BasicLanguage.names     : pool -> set of str
    pc,                \* position of the caller: "idle" or inside gen_name's loop
    frame,             \* locals of the running gen_name call
    last               \* what the last operation was given and what it returned

vars == <<Orthography_ortho, orthos, phonemes, syll, ortho, min_syll, max_syll,
          restricts, min_char, max_char, morphemes, words, names, pc, frame, last>>

langvars == <<phonemes, syll, ortho, min_syll, max_syll, restricts,
              min_char, max_char>>

None == "None"

-----------------------------------------------------------------------------
(* Strings *)

\* Characters the lexer does not take inside a string literal are written
\* by their code point; each is still one character of a string.
ENG        == "U+014B"   \* 'ŋ'
GAMMA      == "U+0263"   \* 'ɣ'
LQUOTE     == "U+2018"   \* left single quotation mark
S_CARON    == "U+0161"   \* s with caron
Z_CARON    == "U+017E"   \* z with caron
C_CARON    == "U+010D"   \* c with caron
S_CARON_UP == "U+0160"
Z_CARON_UP == "U+017D"
C_CARON_UP == "U+010C"
ENG_UP     == "U+014A"   \* 'ŋ'.upper()
GAMMA_UP   == "U+0194"   \* 'ɣ'.upper()

\* s[:-1]  (the empty string stays empty)
ButLast(s) == IF Len(s) = 0 THEN s ELSE SubSeq(s, 1, Len(s) - 1)

\* Python's  a in b  for two strings: a occurs in b as a contiguous substring
IsSubstring(a, b) ==
    \E i \in 0..(Len(b) - Len(a)) : SubSeq(b, i + 1, i + Len(a)) = a

\* ''.join(list)
RECURSIVE Concat(_)
Concat(list) == IF list = <<>> THEN <<>> ELSE Head(list) \o Concat(Tail(list))

\* sep.join(list)
RECURSIVE Join(_, _)
Join(sep, list) ==
    IF list = <<>> THEN <<>>
    ELSE IF Len(list) = 1 THEN Head(list)
    ELSE Head(list) \o sep \o Join(sep, Tail(list))

\* str.upper() of one character, for every character of the phoneme sets and
\* of the orthography tables that it changes
UpperPairs ==
    { <<"a", "A">>, <<"b", "B">>, <<"c", "C">>, <<"d", "D">>, <<"e", "E">>,
      <<"f", "F">>, <<"g", "G">>, <<"h", "H">>, <<"i", "I">>, <<"j", "J">>,
      <<"k", "K">>, <<"l", "L">>, <<"m", "M">>, <<"n", "N">>, <<"o", "O">>,
      <<"p", "P">>, <<"q", "Q">>, <<"r", "R">>, <<"s", "S">>, <<"t", "T">>,
      <<"u", "U">>, <<"v", "V">>, <<"w", "W">>, <<"x", "X">>, <<"y", "Y">>,
      <<"z", "Z">>, <<"á", "Á">>, <<"é", "É">>, <<"í", "Í">>, <<"ó", "Ó">>,
      <<"ú", "Ú">>, <<"ä", "Ä">>, <<"ë", "Ë">>, <<"ï", "Ï">>, <<"ö", "Ö">>,
      <<"ü", "Ü">>, <<"â", "Â">>, <<"ê", "Ê">>, <<"ô", "Ô">>, <<S_CARON, S_CARON_UP>>,
      <<Z_CARON, Z_CARON_UP>>, <<C_CARON, C_CARON_UP>>, <<"ǧ", "Ǧ">>,
      <<"ʃ", "Ʃ">>, <<"ʒ", "Ʒ">>, <<ENG, ENG_UP>>, <<GAMMA, GAMMA_UP>> }

UPPER == [c \in {p[1] : p \in UpperPairs} |->
             (CHOOSE p \in UpperPairs : p[1] = c)[2]]
LOWER == [c \in {p[2] : p \in UpperPairs} |->
             (CHOOSE p \in UpperPairs : p[2] = c)[1]]

Upper(c) == IF c \in DOMAIN UPPER THEN UPPER[c] ELSE c
Lower(c) == IF c \in DOMAIN LOWER THEN LOWER[c] ELSE c

\* str.capitalize(): first character upper-cased, the rest lower-cased
capitalize(s) ==
    [i \in 1..Len(s) |-> IF i = 1 THEN Upper(s[i]) ELSE Lower(s[i])]

-----------------------------------------------------------------------------
(* Phoneme sets, syllable patterns and restrictions *)

CON_SETS == <<
    <<"p", "t", "k", "m", "n", "s", "l">>,
    <<"p", "t", "k", "m", "n", "h">>,
    <<"p", "t", "k", "b", "d", "g", "m", "n", "l", "r", "s", "ʃ", "z", "ʒ", "ʧ">>,
    <<"h", "k", "l", "m", "n", "p", "w", "ʔ">>,
    <<"p", "t", "k", "q", "v", "s", "g", "r", "m", "n", ENG, "l", "j">>,
    <<"t", "k", "s", "ʃ", "d", "b", "q", GAMMA, "x", "m", "n", "l", "r", "w", "j">>,
    <<"t", "k", "d", "g", "m", "n", "s", "ʃ">>,
    <<"p", "t", "k", "b", "d", "g", "m", "n", "s", "z", "ʒ", "ʧ", "h", "j", "w">> >>

CON_SIB == << <<"s">>, <<"s", "ʃ">>, <<"s", "ʃ", "f">> >>

CON_LIQ == << <<"r", "l">>, <<"r">>, <<"l">>, <<"w", "j">>,
              <<"l", "r", "w", "j">> >>

CON_FIN == << <<"m", "n">>, <<"s", "k">>, <<"m", "n", ENG>>,
              <<"s", "ʃ", "z", "ʒ">> >>

VOW_SETS == <<
    <<"a", "e", "i", "o", "u">>,
    <<"a", "i", "u">>,
    <<"a", "e", "i", "o", "u", "A", "E", "I">>,
    <<"a", "e", "i", "o", "u", "U">>,
    <<"a", "i", "u", "A", "I">>,
    <<"e", "o", "u">>,
    <<"a", "e", "i", "o", "u", "A", "O", "U">> >>

SYLL_PATTERNS == <<
    <<"C", "V", "C">>,
    <<"C", "V", "V", "?", "C">>,
    <<"C", "V", "V", "C", "?">>, <<"C", "V", "C", "?">>, <<"C", "V">>,
    <<"V", "C">>, <<"C", "V", "F">>, <<"C", "?", "V", "C">>,
    <<"C", "V", "F", "?">>,
    <<"C", "L", "?", "V", "C">>, <<"C", "L", "?", "V", "F">>,
    <<"S", "?", "C", "V", "C">>, <<"S", "?", "C", "V", "F">>,
    <<"S", "?", "C", "V", "C", "?">>,
    <<"C", "?", "V", "F">>, <<"C", "?", "V", "C", "?">>,
    <<"C", "?", "V", "F", "?">>, <<"C", "?", "L", "?", "V", "C">>,
    <<"V", "C">>,
    <<"C", "V", "L", "?", "C", "?">>, <<"C", "?", "V", "L", "?", "C">>,
    <<"C", "?", "V", "L", "C", "?">> >>

\* the regular expression (.)\1 : any character followed by itself
REPEAT == <<"(", ".", ")", "\\", "1">>

RESTRICTIONS == <<
    <<"s", "s">>, <<"ʃ", "ʃ">>, <<"ʃ", "s">>, <<"s", "ʃ">>, <<"f", "s">>,
    <<"f", "ʃ">>, <<"l", "r">>, <<"r", "l">>, REPEAT >>

-----------------------------------------------------------------------------
(* Orthography *)

ORTHO_DEFAULT ==
    [k \in {"ʃ", "ʒ", "ʧ", "ʤ", ENG, "j", "x", GAMMA, "ʔ", "A", "E", "I", "O", "U"} |->
        CASE k = "ʃ" -> <<"s", "h">>
          [] k = "ʒ" -> <<"z", "h">>
          [] k = "ʧ" -> <<"c", "h">>
          [] k = "ʤ" -> <<"j">>
          [] k = ENG -> <<"n", "g">>
          [] k = "j" -> <<"y">>
          [] k = "x" -> <<"k", "h">>
          [] k = GAMMA -> <<"g", "h">>
          [] k = "ʔ" -> <<LQUOTE>>
          [] k = "A" -> <<"á">>
          [] k = "E" -> <<"é">>
          [] k = "I" -> <<"í">>
          [] k = "O" -> <<"ó">>
          [] k = "U" -> <<"ú">>]

\* a dict given by its items
Dict(items) == [k \in {it[1] : it \in items} |->
                   (CHOOSE it \in items : it[1] = k)[2]]

CON_ORTHO == <<
    Dict({ <<"default", <<"N", "o", "n", "e">> >> }),
    Dict({ <<"ʃ", <<S_CARON>> >>, <<"ʒ", <<Z_CARON>> >>, <<"ʧ", <<C_CARON>> >>,
           <<"ʤ", <<"ǧ">> >>, <<"j", <<"j">> >> }),
    Dict({ <<"ʃ", <<"s", "c", "h">> >>, <<"ʒ", <<"z", "h">> >>,
           <<"ʧ", <<"t", "s", "c", "h">> >>, <<"ʤ", <<"d", "z">> >>,
           <<"j", <<"j">> >>, <<"x", <<"c", "h">> >> }),
    Dict({ <<"ʃ", <<"c", "h">> >>, <<"ʒ", <<"j">> >>,
           <<"ʧ", <<"t", "c", "h">> >>, <<"ʤ", <<"d", "j">> >>,
           <<"x", <<"k", "h">> >> }),
    Dict({ <<"ʃ", <<"x">> >>, <<"ʧ", <<"q">> >>, <<"ʤ", <<"j">> >> }) >>

VOW_ORTHO == <<
    Dict({ <<"default", <<"N", "o", "n", "e">> >> }),
    Dict({ <<"A", <<"ä">> >>, <<"E", <<"ë">> >>, <<"I", <<"ï">> >>,
           <<"O", <<"ö">> >>, <<"U", <<"ü">> >> }),
    Dict({ <<"A", <<"a", "u">> >>, <<"E", <<"e", "i">> >>, <<"I", <<"i", "e">> >>,
           <<"O", <<"o", "u">> >>, <<"U", <<"o", "o">> >> }),
    Dict({ <<"A", <<"â">> >>, <<"E", <<"ê">> >>, <<"I", <<"y">> >>,
           <<"O", <<"ô">> >>, <<"U", <<"w">> >> }),
    Dict({ <<"A", <<"a", "a">> >>, <<"E", <<"e", "e">> >>, <<"I", <<"i", "i">> >>,
           <<"O", <<"o", "o">> >>, <<"U", <<"u", "u">> >> }) >>

\* dict.update(other), as a value: other's items override
DictUpdate(d, other) ==
    [k \in (DOMAIN d) \cup (DOMAIN other) |->
        IF k \in DOMAIN other THEN other[k] ELSE d[k]]

\* The overlays an Orthography is built with are named by their position in
\* CON_ORTHO / VOW_ORTHO (1-based); 0 stands for the argument None.
NoOverlay == 0

\* Orthography.__init__: both overlays are written with dict.update into
\* self.ortho, which is the class attribute, i.e. the ORTHO_DEFAULT dict itself.
OrthographyInit(shared, c_ortho, v_ortho) ==
    LET afterC == IF c_ortho # NoOverlay
                  THEN DictUpdate(shared, CON_ORTHO[c_ortho]) ELSE shared
    IN  IF v_ortho # NoOverlay
        THEN DictUpdate(afterC, VOW_ORTHO[v_ortho]) ELSE afterC

\* Mapping.get(key, default) over Orthography.__getitem__
OrthoGet(d, key, default) == IF key \in DOMAIN d THEN d[key] ELSE default

-----------------------------------------------------------------------------
(* Syllables *)

\* choose(lst): index = int(random()**exp * len(lst)) can be any index of lst
choose(lst) == {lst[i] : i \in 1..Len(lst)}

\* The first lookup of gen_syllable's for-loop that raises, if any:
\* self.phonemes[spec] with spec missing (KeyError), or choose() of an empty
\* sequence (IndexError).  None when every lookup succeeds.
SyllableError(pattern, phon) ==
    LET bad == {i \in 1..Len(pattern) :
                   /\ pattern[i] # "?"
                   /\ \/ pattern[i] \notin DOMAIN phon
                      \/ phon[pattern[i]] = <<>>}
    IN  IF bad = {} THEN None
        ELSE LET i == CHOOSE j \in bad : \A m \in bad : j <= m
             IN  IF pattern[i] \notin DOMAIN phon THEN "KeyError" ELSE "IndexError"

\* The phone strings one pass of gen_syllable's for-loop can build from
\* position i on, having built `phones` so far.
RECURSIVE BuildPhones(_, _, _, _)
BuildPhones(pattern, phon, i, phones) ==
    IF i > Len(pattern) THEN {phones}
    ELSE IF pattern[i] = "?"
         THEN BuildPhones(pattern, phon, i + 1, ButLast(phones))
              \cup BuildPhones(pattern, phon, i + 1, phones)
         ELSE UNION {BuildPhones(pattern, phon, i + 1, Append(phones, p)) :
                        p \in choose(phon[pattern[i]])}

\* every pattern searched as a literal string
re_search_literal(r, s) == IsSubstring(r, s)

\* re.search(r, s) for the patterns of RESTRICTIONS: a literal, or (.)\1
re_search(r, s) ==
    IF r = REPEAT THEN \E i \in 1..(Len(s) - 1) : s[i] = s[i + 1]
    ELSE IsSubstring(r, s)

\* the for/else of gen_syllable: some restriction matches the raw syllable
Restricted(restr, s) == \E j \in 1..Len(restr) : re_search(restr[j], s)

\* transliterate with the whole syllable as the fallback of an unmapped phone
RECURSIVE TransLoop_syll_default(_, _, _)
TransLoop_syll_default(d, s, i) ==
    IF i > Len(s) THEN <<>>
    ELSE OrthoGet(d, s[i], s) \o TransLoop_syll_default(d, s, i + 1)

\* the dict behind a BasicLanguage's ortho: every Orthography instance reads
\* the one shared class attribute
RECURSIVE TransLoop(_, _, _)
TransLoop(d, s, i) ==
    IF i > Len(s) THEN <<>>
    ELSE OrthoGet(d, s[i], <<s[i]>>) \o TransLoop(d, s, i + 1)

\* BasicLanguage.ortho is None
NoOrtho == 0

\* BasicLanguage.transliterate
transliterate(o, d, s) == IF o = NoOrtho THEN s ELSE TransLoop(d, s, 1)

\* The raw syllables gen_syllable's while-loop can leave with: a pass whose
\* syllable matches a restriction changes nothing and is run again.
RawSyllables(pattern, phon, restr) ==
    {s \in BuildPhones(pattern, phon, 1, <<>>) : ~Restricted(restr, s)}

\* The values gen_syllable can return
Syllables(pattern, phon, restr, o, d) ==
    {transliterate(o, d, s) : s \in RawSyllables(pattern, phon, restr)}

-----------------------------------------------------------------------------
(* BasicLanguage: construction *)

\* __init__, lines 200-205: the character bounds of a name
MinChar(pattern) == IF Len(pattern) < 3 THEN Len(pattern) + 1 ELSE Len(pattern)
MaxChar(pattern) == IF Len(pattern) < 3 THEN Len(pattern) * 4 ELSE Len(pattern) * 3

\* the pool identifiers used by the callers and by gen_name itself
Pools == {None, "city", "land", "of", "the"}

EmptyLists == [p \in Pools |-> <<>>]
EmptySets == [p \in Pools |-> {}]

NoOp == [op |-> "init", pool |-> None, n |-> 0, before |-> 0, raw |-> <<>>,
         ret |-> <<>>, ret2 |-> <<>>, parts |-> <<>>, err |-> None,
         verdict |-> None]

\* no gen_name call is running
NoFrame == [pool |-> None, genitive |-> <<>>, definitive |-> <<>>]

\* the dict self.ortho.get reads
OrthoDict == Orthography_ortho

-----------------------------------------------------------------------------
(* BasicLanguage: morphemes and words *)

\* Python's  str == list : never equal
PyEqStrList(s, lst) == FALSE

\* x in d.values(), where the values of d are lists and x is a str
InValues(s, reg) == \E p \in DOMAIN reg : PyEqStrList(s, reg[p])

MorphExtras(pool) == IF pool = None THEN 10 ELSE 1
WordExtras(pool) == IF pool = None THEN 3 ELSE 2

\* get_morpheme putting its new morpheme in front of the list
GetMorphemeDraw_prepend(m, pool, n) ==
    IF n < Len(m[pool])
    THEN {[m |-> m, ret |-> m[pool][n + 1], err |-> None]}
    ELSE IF SyllableError(syll, phonemes) # None
         THEN {[m |-> m, ret |-> <<>>, err |-> SyllableError(syll, phonemes)]}
         ELSE {[m |-> [m EXCEPT ![pool] = <<new_morph>> \o @],
                ret |-> new_morph, err |-> None] :
                  new_morph \in Syllables(syll, phonemes, restricts,
                                          ortho, OrthoDict)}

\* one get_morpheme(pool) call on the morpheme registry m, for the draw n:
\* what it leaves and returns.  A new syllable found in m.values() is
\* dropped and the loop draws again, m unchanged.
GetMorphemeDraw(m, pool, n) ==
    IF n < Len(m[pool])
    THEN {[m |-> m, ret |-> m[pool][n + 1], err |-> None]}
    ELSE IF SyllableError(syll, phonemes) # None
         THEN {[m |-> m, ret |-> <<>>, err |-> SyllableError(syll, phonemes)]}
         ELSE {[m |-> [m EXCEPT ![pool] = Append(@, new_morph)],
                ret |-> new_morph, err |-> None] :
                  new_morph \in {x \in Syllables(syll, phonemes, restricts,
                                                  ortho, OrthoDict) :
                                     ~InValues(x, m)}}

\* rd.randrange(len(morph_list) + extras)
MorphDraws(m, pool) == 0..(Len(m[pool]) + MorphExtras(pool) - 1)

\* get_morpheme(pool), whatever it draws.  Every draw n >= len(morph_list)
\* takes the same branch, so the least of them stands for all.
GetMorpheme(m, pool) ==
    UNION {GetMorphemeDraw(m, pool, n) :
              n \in {d \in MorphDraws(m, pool) : d <= Len(m[pool])}}

\* len(range(min_syll, max_syll + 1))
RangeLen(lo, hi) == IF hi + 1 > lo THEN hi + 1 - lo ELSE 0

\* gen_word: one get_morpheme call per element of the range, joined
RECURSIVE GenWordFrom(_, _, _, _)
GenWordFrom(m, pool, todo, parts) ==
    IF todo = 0
    THEN {[m |-> m, ret |-> Concat(parts), parts |-> parts, err |-> None]}
    ELSE UNION {IF o.err # None
                THEN {[m |-> o.m, ret |-> <<>>, parts |-> parts, err |-> o.err]}
                ELSE GenWordFrom(o.m, pool, todo - 1, Append(parts, o.ret)) :
                   o \in GetMorpheme(m, pool)}

GenWord(m, pool) == GenWordFrom(m, pool, RangeLen(min_syll, max_syll), <<>>)

\* how many times get_word's loop may find its new word taken and draw again
MaxRetry == 1

\* rd.randrange(len(word_list) + extras)
WordDraws(w, pool) == 0..(Len(w[pool]) + WordExtras(pool) - 1)

\* get_word(pool) on the registries m (morphemes) and w (words), its first
\* draw being n.  A new word found in w.values() is dropped and the loop
\* draws again, with the morphemes gen_word has stored in the meantime.
RECURSIVE GetWordDraw(_, _, _, _, _)
GetWordDraw(m, w, pool, n, retries) ==
    IF n < Len(w[pool])
    THEN {[m |-> m, w |-> w, ret |-> w[pool][n + 1], n |-> n,
           parts |-> <<>>, err |-> None]}
    ELSE UNION {
        IF g.err # None
        THEN {[m |-> g.m, w |-> w, ret |-> <<>>, n |-> n,
               parts |-> g.parts, err |-> g.err]}
        ELSE IF InValues(g.ret, w)
             THEN IF retries = 0 THEN {}
                  ELSE UNION {GetWordDraw(g.m, w, pool, n2, retries - 1) :
                                 n2 \in WordDraws(w, pool)}
             ELSE {[m |-> g.m, w |-> [w EXCEPT ![pool] = Append(@, g.ret)],
                    ret |-> g.ret, n |-> n, parts |-> g.parts,
                    err |-> None]} :
          g \in GenWord(m, pool)}

\* get_word(pool), whatever it draws (every draw n >= len(word_list) takes
\* the same branch, so the least of them stands for all)
GetWord(m, w, pool) ==
    UNION {GetWordDraw(m, w, pool, n, MaxRetry) :
              n \in {d \in WordDraws(w, pool) : d <= Len(w[pool])}}

\* the sizes the registries are explored up to
MaxMorphemes == 2
MaxWords == 2

RECURSIVE SumLen(_, _)
SumLen(reg, ps) ==
    IF ps = {} THEN 0
    ELSE LET p == CHOOSE q \in ps : TRUE
         IN  Len(reg[p]) + SumLen(reg, ps \ {p})

CountMorphemes(m) == SumLen(m, DOMAIN m)
CountWords(w) == SumLen(w, DOMAIN w)

-----------------------------------------------------------------------------
(* The operations, as the caller invokes them *)

\* the pools the callers ask gen_name for (lines 434-435)
CallPools == {"city", "land"}

\* gen_name's pool argument: what the callers pass, or the default None
\* (line 265)
GenNamePools == CallPools \cup {None}

\* the pools gen_name asks get_word for: its own, or the generic one
WordPools == GenNamePools \cup {None}

\* gen_syllable()
GenSyllableCall ==
    /\ pc = "idle"
    /\ IF SyllableError(syll, phonemes) # None
       THEN last' = [NoOp EXCEPT !.op = "gen_syllable",
                                 !.err = SyllableError(syll, phonemes)]
       ELSE \E raw \in RawSyllables(syll, phonemes, restricts) :
              last' = [NoOp EXCEPT !.op = "gen_syllable", !.raw = raw,
                                   !.ret = transliterate(ortho, OrthoDict, raw)]
    /\ UNCHANGED <<Orthography_ortho, orthos, langvars, morphemes, words,
                   names, pc, frame>>

\* transliterate(s) on a phone string the phoneme sets can produce, and
\* transliterate again on what it returned
TransliterateTwice ==
    /\ pc = "idle"
    /\ SyllableError(syll, phonemes) = None
    /\ \E s \in BuildPhones(syll, phonemes, 1, <<>>) :
          LET once == transliterate(ortho, OrthoDict, s)
          IN  last' = [NoOp EXCEPT !.op = "transliterate", !.raw = s,
                                   !.ret = once,
                                   !.ret2 = transliterate(ortho, OrthoDict, once)]
    /\ UNCHANGED <<Orthography_ortho, orthos, langvars, morphemes, words,
                   names, pc, frame>>

\* get_morpheme(pool)
GetMorphemeCall(pool) ==
    /\ pc = "idle"
    /\ \E n \in MorphDraws(morphemes, pool) :
         \E o \in GetMorphemeDraw(morphemes, pool, n) :
            /\ CountMorphemes(o.m) <= MaxMorphemes
            /\ morphemes' = o.m
            /\ last' = [NoOp EXCEPT !.op = "get_morpheme", !.pool = pool,
                                    !.n = n, !.before = Len(morphemes[pool]),
                                    !.ret = o.ret, !.err = o.err]
    /\ UNCHANGED <<Orthography_ortho, orthos, langvars, words, names, pc, frame>>

\* gen_word(pool)
GenWordCall(pool) ==
    /\ pc = "idle"
    /\ \E g \in GenWord(morphemes, pool) :
            /\ CountMorphemes(g.m) <= MaxMorphemes
            /\ morphemes' = g.m
            /\ last' = [NoOp EXCEPT !.op = "gen_word", !.pool = pool,
                                    !.ret = g.ret, !.parts = g.parts,
                                    !.err = g.err]
    /\ UNCHANGED <<Orthography_ortho, orthos, langvars, words, names, pc, frame>>

\* get_word(pool)
GetWordCall(pool) ==
    /\ pc = "idle"
    /\ \E n \in WordDraws(words, pool) :
         \E o \in GetWordDraw(morphemes, words, pool, n, MaxRetry) :
            /\ CountMorphemes(o.m) <= MaxMorphemes
            /\ CountWords(o.w) <= MaxWords
            /\ morphemes' = o.m
            /\ words' = o.w
            /\ last' = [NoOp EXCEPT !.op = "get_word", !.pool = pool,
                                    !.n = o.n, !.before = Len(words[pool]),
                                    !.ret = o.ret, !.parts = o.parts,
                                    !.err = o.err]
    /\ UNCHANGED <<Orthography_ortho, orthos, langvars, names, pc, frame>>

-----------------------------------------------------------------------------
(* BasicLanguage: names *)

\* check_unique testing one direction only
check_unique_one_way(nm, name) ==
    \A cat \in DOMAIN nm : \A other_name \in nm[cat] :
        ~IsSubstring(name, other_name)

\* check_unique(name) against the name registry nm
check_unique(nm, name) ==
    \A cat \in DOMAIN nm : \A other_name \in nm[cat] :
        ~(IsSubstring(name, other_name) \/ IsSubstring(other_name, name))

\* the length test without its lower bound
LengthOK_upper_only(name) == Len(name) <= max_char * 2

\* line 291: the length test a candidate must pass
LengthOK(name) == min_char <= Len(name) /\ Len(name) <= max_char * 2

\* self.ortho.joiner, read on an Orthography
Joiner == orthos[ortho].joiner

\* self.ortho.joiner when self.ortho is None
JoinerError == IF ortho = NoOrtho THEN "AttributeError" ELSE None

\* a pass of gen_name's loop that an exception ends
Raised(m, w, err) ==
    [m |-> m, w |-> w, name |-> <<>>, verdict |-> "raised", err |-> err]

\* lines 289-296: the candidate `name` of one pass of gen_name's loop, with
\* or without the definite marker in front, and what the pass does with it
Decide(m, w, nm, fr, name) ==
    { IF definite /\ JoinerError # None
      THEN Raised(m, w, JoinerError)
      ELSE LET full == IF definite
                       THEN Join(Joiner, <<fr.definitive, name>>)
                       ELSE name
           IN  [m |-> m, w |-> w, name |-> full,
                verdict |-> IF ~LengthOK(full) THEN "length"
                            ELSE IF ~check_unique(nm, full) THEN "not_unique"
                            ELSE "accepted",
                err |-> None] :
      definite \in BOOLEAN }

\* lines 284-287: the two parts joined, with or without the genitive marker
JoinParts(m, w, nm, fr, n_part1, n_part2) ==
    IF JoinerError # None
    THEN {Raised(m, w, JoinerError)}
    ELSE Decide(m, w, nm, fr, Join(Joiner, <<n_part1, n_part2>>))
         \cup Decide(m, w, nm, fr,
                     Join(Joiner, <<n_part1, fr.genitive, n_part2>>))

\* lines 270-296: one pass of gen_name's loop from the registries m, w, nm
\* with the locals fr: every way the random draws can go
GenNamePass(m, w, nm, fr) ==
    LET single ==
            UNION {IF o.err # None
                   THEN {Raised(o.m, o.w, o.err)}
                   ELSE Decide(o.m, o.w, nm, fr, capitalize(o.ret)) :
                      o \in GetWord(m, w, fr.pool)}
        second(o1) ==
            UNION {
                LET n_part1 == capitalize(o1.ret)
                    n_part2 == capitalize(o2.ret)
                IN  IF o2.err # None
                    THEN {Raised(o2.m, o2.w, o2.err)}
                    ELSE IF n_part1 = n_part2
                    THEN {[m |-> o2.m, w |-> o2.w, name |-> <<>>,
                           verdict |-> "same_parts", err |-> None]}
                    ELSE JoinParts(o2.m, o2.w, nm, fr, n_part1, n_part2) :
                o2 \in UNION {GetWord(o1.m, o1.w, p2) : p2 \in {fr.pool, None}}}
        double ==
            UNION {IF o1.err # None
                   THEN {Raised(o1.m, o1.w, o1.err)}
                   ELSE second(o1) :
              o1 \in UNION {GetWord(m, w, p1) : p1 \in {fr.pool, None}}}
    IN  single \cup double

\* how many items (morphemes, words and names together) the registries are
\* explored up to while names are generated
MaxStored == 8

CountNames(nm) ==
    Cardinality({<<p, x>> \in UNION {{p} \X nm[p] : p \in DOMAIN nm} : TRUE})

CountStored(m, w, nm) == CountMorphemes(m) + CountWords(w) + CountNames(nm)

\* gen_name(pool), lines 266-267: the two markers are fetched, then the loop
\* is entered; an exception of get_morpheme ends the call
GenNameEnter(pool) ==
    /\ pc = "idle"
    /\ \E g \in GetMorpheme(morphemes, "of") :
         IF g.err # None
         THEN /\ morphemes' = g.m
              /\ last' = [NoOp EXCEPT !.op = "gen_name", !.pool = pool,
                                      !.err = g.err, !.verdict = "raised"]
              /\ UNCHANGED <<pc, frame>>
         ELSE \E d \in GetMorpheme(g.m, "the") :
                /\ morphemes' = d.m
                /\ IF d.err # None
                   THEN /\ last' = [NoOp EXCEPT !.op = "gen_name",
                                                !.pool = pool, !.err = d.err,
                                                !.verdict = "raised"]
                        /\ UNCHANGED <<pc, frame>>
                   ELSE /\ CountStored(d.m, words, names) < MaxStored
                        /\ frame' = [pool |-> pool, genitive |-> g.ret,
                                     definitive |-> d.ret]
                        /\ pc' = "gen_name"
                        /\ last' = [NoOp EXCEPT !.op = "gen_name_enter",
                                                !.pool = pool]
    /\ UNCHANGED <<Orthography_ortho, orthos, langvars, words, names>>

\* one pass of gen_name's loop: it ends in `continue` (the two parts are the
\* same word, the length is out of bounds, the name is not unique), in an
\* exception, or it stores the name and returns it
GenNameLoop ==
    /\ pc = "gen_name"
    /\ \E o \in GenNamePass(morphemes, words, names, frame) :
            /\ CountStored(o.m, o.w, names)
                 + (IF o.verdict = "accepted" THEN 1 ELSE 0) <= MaxStored
            /\ morphemes' = o.m
            /\ words' = o.w
            /\ IF o.verdict = "accepted"
               THEN /\ names' = [names EXCEPT ![frame.pool] = @ \cup {o.name}]
                    /\ pc' = "idle"
                    /\ frame' = NoFrame
                    /\ last' = [NoOp EXCEPT !.op = "gen_name",
                                            !.pool = frame.pool,
                                            !.ret = o.name,
                                            !.verdict = o.verdict]
               ELSE IF o.verdict = "raised"
               THEN /\ names' = names
                    /\ pc' = "idle"
                    /\ frame' = NoFrame
                    /\ last' = [NoOp EXCEPT !.op = "gen_name",
                                            !.pool = frame.pool,
                                            !.err = o.err,
                                            !.verdict = o.verdict]
               ELSE UNCHANGED <<names, pc, frame, last>>
    /\ UNCHANGED <<Orthography_ortho, orthos, langvars>>

\* how many Orthography instances are constructed
MaxOrthos == 2

\* Orthography(c_ortho, v_ortho, joiner)
NewOrthography(c_ortho, v_ortho, joiner) ==
    /\ pc = "idle"
    /\ Len(orthos) < MaxOrthos
    /\ Orthography_ortho' = OrthographyInit(Orthography_ortho, c_ortho, v_ortho)
    /\ orthos' = Append(orthos, [c_ortho |-> c_ortho, v_ortho |-> v_ortho,
                                 joiner |-> joiner])
    /\ last' = [NoOp EXCEPT !.op = "Orthography"]
    /\ UNCHANGED <<langvars, morphemes, words, names, pc, frame>>

\* Orthography.__getitem__ of instance i: self.ortho is found on the class
MappingOf(i) == Orthography_ortho

-----------------------------------------------------------------------------
(* Initial states *)

\* BasicLanguage.__init__(phonemes, syll, ortho, min_syll, max_syll): the
\* fields are stored as given and nothing is checked
LanguageInit(cfg, o) ==
    /\ phonemes = cfg.phonemes
    /\ syll = cfg.syll
    /\ ortho = o
    /\ min_syll = cfg.min_syll
    /\ max_syll = cfg.max_syll
    /\ restricts = RESTRICTIONS
    /\ min_char = MinChar(cfg.syll)
    /\ max_char = MaxChar(cfg.syll)
    /\ morphemes = EmptyLists
    /\ words = EmptyLists
    /\ names = EmptySets
    /\ pc = "idle"
    /\ frame = NoFrame
    /\ last = NoOp

\* A process that has built one Orthography(c_ortho, v_ortho, joiner) and one
\* BasicLanguage with it, as build_language does.
Constructed(cfg, c_ortho, v_ortho, joiner) ==
    /\ Orthography_ortho = OrthographyInit(ORTHO_DEFAULT, c_ortho, v_ortho)
    /\ orthos = << [c_ortho |-> c_ortho, v_ortho |-> v_ortho, joiner |-> joiner] >>
    /\ LanguageInit(cfg, 1)

\* A process that has built a BasicLanguage with the default ortho=None
ConstructedPlain(cfg) ==
    /\ Orthography_ortho = ORTHO_DEFAULT
    /\ orthos = <<>>
    /\ LanguageInit(cfg, NoOrtho)

\* configurations of the pool operations: the pattern 'CV' over two
\* consonants and a vowel, with several syllable-count bounds, among them
\* max_syll < min_syll; the same pattern over one consonant with two-morpheme
\* words; a pattern whose role 'F' has no phoneme set
PT_A == Dict({ <<"C", <<"p", "t">> >>, <<"V", <<"a">> >> })
P_A == Dict({ <<"C", <<"p">> >>, <<"V", <<"a">> >> })

PoolConfigs ==
    { [syll |-> <<"C", "V">>, phonemes |-> PT_A, min_syll |-> b[1], max_syll |-> b[2]] :
         b \in { <<1, 1>>, <<2, 2>>, <<2, 1>> } }
    \cup { [syll |-> <<"C", "V">>, phonemes |-> P_A, min_syll |-> 1, max_syll |-> 2] }
    \cup { [syll |-> <<"C", "V", "F">>, phonemes |-> PT_A, min_syll |-> 1, max_syll |-> 1] }

Init == \E cfg \in PoolConfigs : Constructed(cfg, 1, 1, <<" ">>)

Next ==
    \/ GenSyllableCall
    \/ \E pool \in WordPools : GetMorphemeCall(pool)
    \/ \E pool \in WordPools : GenWordCall(pool)
    \/ \E pool \in WordPools : GetWordCall(pool)

Spec == Init /\ [][Next]_vars

\* the configuration of the name generator: the pattern 'V' over a short and
\* a long vowel, the long one written with two letters, and one-syllable
\* words.  A one-word name can be shorter than min_char and the longest
\* names are longer than max_char*2.
A_LONG == Dict({ <<"V", <<"a", "A">> >> })

\* one vowel and the pattern 'VV?': the doubled vowel is restricted, so the only
\* syllable is 'a', shorter than the three characters a name needs
A_ONLY == Dict({ <<"V", <<"a">> >> })

NameConfigs ==
    { [syll |-> <<"V">>, phonemes |-> A_LONG, min_syll |-> 1, max_syll |-> 1],
      [syll |-> <<"V", "V", "?">>, phonemes |-> A_ONLY,
       min_syll |-> 1, max_syll |-> 1] }

\* a language built without an Orthography, whose one-word name is long
\* enough to be stored
NamePlainConfig ==
    [syll |-> <<"C", "V", "C">>, phonemes |-> P_A, min_syll |-> 1, max_syll |-> 1]

\* a language whose pattern names a role without a phoneme set
NameFailingConfig ==
    [syll |-> <<"C", "V", "F">>, phonemes |-> PT_A, min_syll |-> 1, max_syll |-> 1]

InitNames ==
    \/ \E cfg \in NameConfigs \cup {NameFailingConfig} :
          Constructed(cfg, 1, 3, <<" ">>)
    \/ ConstructedPlain(NamePlainConfig)

NextNames ==
    \/ \E pool \in GenNamePools : GenNameEnter(pool)
    \/ GenNameLoop

SpecNames == InitNames /\ [][NextNames]_vars

\* the syllable generator's configurations: every pattern of SYLL_PATTERNS
\* over an inventory taken from the source's sets (CON_SETS[2] and
\* VOW_SETS[4] thinned out, CON_SIB[2], CON_FIN[1], CON_LIQ[0]), with every
\* pair of orthography overlays, or without an orthography
INVENTORY ==
    Dict({ <<"C", <<"t", "ʃ", "ʒ">> >>, <<"V", <<"a", "A">> >>,
           <<"S", CON_SIB[3]>>, <<"F", CON_FIN[2]>>, <<"L", CON_LIQ[1]>> })

SyllConfigs ==
    { [syll |-> SYLL_PATTERNS[i], phonemes |-> INVENTORY,
       min_syll |-> 1, max_syll |-> 1] : i \in 1..Len(SYLL_PATTERNS) }

InitSyll ==
    \E cfg \in SyllConfigs :
        \/ \E c \in 1..Len(CON_ORTHO), v \in 1..Len(VOW_ORTHO) :
              Constructed(cfg, c, v, <<" ">>)
        \/ ConstructedPlain(cfg)

NextSyll ==
    \/ GenSyllableCall
    \/ TransliterateTwice

SpecSyll == InitSyll /\ [][NextSyll]_vars

\* a process that builds Orthography instances, with any overlays or none
InitOrtho == ConstructedPlain([syll |-> <<"C", "V">>, phonemes |-> PT_A,
                               min_syll |-> 1, max_syll |-> 1])

NextOrtho ==
    \E c \in 0..Len(CON_ORTHO), v \in 0..Len(VOW_ORTHO),
       joiner \in {<<" ">>, <<"-">>} :
        NewOrthography(c, v, joiner)

SpecOrtho == InitOrtho /\ [][NextOrtho]_vars

-----------------------------------------------------------------------------
(* The claims *)

\* the entries of a registry of lists, as <<pool, index>>
Entries(reg) == UNION {{p} \X (1..Len(reg[p])) : p \in DOMAIN reg}

\* C1: no name stored in the name registry is a substring of another stored
\* name, in the same pool or in another one.
C1_NoNameInsideAnother ==
    \A p \in DOMAIN names, q \in DOMAIN names :
        \A a \in names[p], b \in names[q] :
            (p # q \/ a # b) => ~IsSubstring(a, b)

\* gen_name has returned, and the generic pool and a named pool hold a
\* name each
C1_Witness ==
    /\ last.op = "gen_name"
    /\ last.verdict = "accepted"
    /\ names[None] # {}
    /\ \E q \in CallPools : names[q] # {}

\* C2: every stored name, and every name gen_name returns, is between
\* min_chars and 2*max_chars characters long, where for a pattern of length n
\* these are n+1 and 4n if n < 3 and n and 3n otherwise.
C2_NameLength ==
    LET n == Len(syll)
        min_chars == IF n < 3 THEN n + 1 ELSE n
        max_chars == IF n < 3 THEN 4 * n ELSE 3 * n
        Fits(name) == min_chars <= Len(name) /\ Len(name) <= 2 * max_chars
    IN  /\ \A p \in DOMAIN names : \A name \in names[p] : Fits(name)
        /\ (last.op = "gen_name" /\ last.verdict = "accepted") => Fits(last.ret)

\* gen_name has returned a name that starts with the definite marker, after
\* names of other lengths were stored
C2_Witness ==
    /\ last.op = "gen_name"
    /\ last.verdict = "accepted"
    /\ last.ret[1] \in DOMAIN UPPER
    /\ \E p \in DOMAIN names : \E name \in names[p] : Len(name) # Len(last.ret)

\* C3: no morpheme is stored in the lists of two different pools.
C3_MorphemeInOnePool ==
    \A e \in Entries(morphemes), f \in Entries(morphemes) :
        e[1] # f[1] => morphemes[e[1]][e[2]] # morphemes[f[1]][f[2]]

\* C4: no two entries of the word registry are the same word.
C4_WordsDistinct ==
    \A e \in Entries(words), f \in Entries(words) :
        e # f => words[e[1]][e[2]] # words[f[1]][f[2]]

\* C5, as claimed: the syllable gen_syllable returns matches no restriction
\* pattern (no forbidden pair, no two adjacent identical characters).
C5_ReturnedSyllableUnrestricted ==
    (last.op = "gen_syllable" /\ last.err = None) =>
        \A j \in 1..Len(restricts) :
            IF restricts[j] = REPEAT
            THEN \A i \in 1..(Len(last.ret) - 1) : last.ret[i] # last.ret[i + 1]
            ELSE ~IsSubstring(restricts[j], last.ret)

\* C5, amended: the phone string gen_syllable transliterates into the
\* syllable it returns matches no restriction pattern, and without an
\* orthography the returned syllable is that phone string.
C5_RawSyllableUnrestricted ==
    (last.op = "gen_syllable" /\ last.err = None) =>
        /\ \A j \in 1..Len(restricts) :
              IF restricts[j] = REPEAT
              THEN \A i \in 1..(Len(last.raw) - 1) : last.raw[i] # last.raw[i + 1]
              ELSE ~IsSubstring(restricts[j], last.raw)
        /\ ortho = NoOrtho => last.ret = last.raw

\* gen_syllable has returned a syllable with a doubled letter, written for a
\* phone string of three phones without one
C5_Witness ==
    /\ last.op = "gen_syllable"
    /\ Len(last.raw) = 3
    /\ \E i \in 1..(Len(last.ret) - 1) : last.ret[i] = last.ret[i + 1]

\* C6, as claimed: transliterating twice gives what transliterating once gives.
C6_Idempotent ==
    last.op = "transliterate" => last.ret2 = last.ret

\* the table writes a phone with a letter that is a key of the table too:
\* 'x' for the phone esh (x is written 'kh' or 'ch'), or 'j' for the phone
\* ezh while j is written 'y'
RewritesItsOutput(d) ==
    \/ d["ʃ"] = <<"x">>
    \/ d["ʒ"] = <<"j">> /\ d["j"] # <<"j">>

\* C6, amended: transliterating twice gives what transliterating once gives
\* under every table that writes neither esh as 'x' nor ezh as 'j' with j
\* written 'y'.
C6_IdempotentUnlessRewritten ==
    (last.op = "transliterate" /\ ~RewritesItsOutput(Orthography_ortho)) =>
        last.ret2 = last.ret

\* a phone string with esh and a long vowel has been transliterated under a
\* table that rewrites none of its letters
C6_Witness ==
    /\ last.op = "transliterate"
    /\ ortho # NoOrtho
    /\ ~RewritesItsOutput(Orthography_ortho)
    /\ \E i \in 1..Len(last.raw) : last.raw[i] = "ʃ"
    /\ \E i \in 1..Len(last.raw) : last.raw[i] = "A"
    /\ last.ret # last.raw

\* C7: an instance is only ever asked to generate with a valid configuration
\* (every role of the pattern has a phoneme set, min_syll <= max_syll), and
\* no generation call fails.
C7_InvalidConfigurationRejected ==
    last.op # "init" =>
        /\ \A i \in 1..Len(syll) : syll[i] = "?" \/ syll[i] \in DOMAIN phonemes
        /\ min_syll <= max_syll
        /\ last.err = None

\* C8: a newly generated word is made of k morphemes, min_syll <= k <= max_syll.
C8_WordSyllableCount ==
    (/\ last.op = "gen_word" \/ (last.op = "get_word" /\ last.n >= last.before)
     /\ last.err = None
     /\ 1 <= min_syll /\ min_syll <= max_syll) =>
        (min_syll <= Len(last.parts) /\ Len(last.parts) <= max_syll)

\* what C9 says of one call on the registry reg of its kind: with the draw n
\* in [0, L+E) it returns the item at index n and leaves reg alone (n < L),
\* or it adds exactly one item, the one it returns, at the end of the pool's
\* list; a call that raises leaves reg alone
C9Call(reg, reg2, extras) ==
    LET pool == last'.pool
        n == last'.n
        L == Len(reg[pool])
    IN  /\ n \in 0..(L + extras - 1)
        /\ IF n < L
           THEN reg2 = reg /\ last'.ret = reg[pool][n + 1] /\ last'.err = None
           ELSE IF last'.err = None
                THEN reg2 = [reg EXCEPT ![pool] = Append(@, last'.ret)]
                ELSE reg2 = reg

\* C9: every get_morpheme call reuses or appends as described (E = 10 for the
\* generic pool, 1 otherwise), every get_word call likewise on the word
\* registry (E = 3 and 2), and no step removes, moves or changes a stored
\* morpheme or word.
C9_AppendOnly ==
    [][ /\ last'.op = "get_morpheme" =>
            C9Call(morphemes, morphemes', IF last'.pool = None THEN 10 ELSE 1)
        /\ last'.op = "get_word" =>
            C9Call(words, words', IF last'.pool = None THEN 3 ELSE 2)
        /\ \A p \in Pools :
              /\ Len(morphemes[p]) <= Len(morphemes'[p])
              /\ SubSeq(morphemes'[p], 1, Len(morphemes[p])) = morphemes[p]
              /\ Len(words[p]) <= Len(words'[p])
              /\ SubSeq(words'[p], 1, Len(words[p])) = words[p]
      ]_vars

\* get_morpheme has appended a morpheme to a pool that held one already
C9_Witness ==
    /\ last.op = "get_morpheme"
    /\ last.err = None
    /\ last.before >= 1
    /\ last.n >= last.before
    /\ Len(morphemes[last.pool]) = last.before + 1

\* C10: the mapping seen through each Orthography instance is the default
\* table overridden by that instance's own overlays only.
C10_OwnOverlaysOnly ==
    \A i \in 1..Len(orthos) :
        MappingOf(i) = OrthographyInit(ORTHO_DEFAULT, orthos[i].c_ortho,
                                       orthos[i].v_ortho)

=============================================================================
